---- MODULE Spec2Model ----
(***************************************************************************)
(* Model of backend/server.py of the Visual Product Matcher: the catalog   *)
(* store (db.products), the CLIP embedder, and the handlers                *)
(* create_product, get_products, get_categories, search_by_upload,         *)
(* search_by_url and seed_products.                                        *)
(*                                                                         *)
(* Numbers.  Embedding components are integers counted in tenths, so a     *)
(* unit-norm vector has squared length Unit = 100 and a dot product is a   *)
(* similarity counted in hundredths (100 stands for 1.0, 30 for 0.3).      *)
(*                                                                         *)
(* Two specifications share the state and the handlers.  Spec is the       *)
(* service: all handlers, several seed requests in flight, searches sent   *)
(* with the default parameters.  SpecSearch is the search: every           *)
(* combination of limit, min_similarity and category, over the stores      *)
(* found at start-up and grown by create_product.                          *)
(***************************************************************************)
EXTENDS Integers, Sequences, FiniteSets, TLC

VARIABLES embedder, store, nextId, seed, resp

vars == <<embedder, store, nextId, seed, resp>>

----------------------------------------------------------------------------
(* Bounds of the model *)

MaxStore == 3        \* inserts are disabled once the store holds this many records
MaxInit == 1         \* the store found at start-up holds at most this many records
NumSeedReqs == 2     \* seed-products requests that may be in flight at once

(* Program constants *)

ScanLimit == 2       \* to_list(1000): the cursor length, scaled down to the model's store sizes
DefaultLimit == 10   \* limit: int = Form(10)
DefaultMinSimilarity == 30   \* min_similarity: float = Form(0.3), in hundredths
UrlDefaultLimit == 10           \* search_by_url: limit: int = Form(10)
UrlDefaultMinSimilarity == 30   \* search_by_url: min_similarity: float = Form(0.3)
Unit == 100          \* squared length of a normalised embedding (1.0)

None == "None"

----------------------------------------------------------------------------
(* Images, their sources and the embedder *)

Images == {"imgA", "imgB"}

Urls == {"urlA", "urlB", "urlBad"}

Files == {"bytesA", "bytesB", "bytesBad"}

\* load_image_from_url: the decoded image, or None where the code raises
\* ValueError: the request failed (`reachable` is false: network error,
\* timeout, non-2xx) or the content is no image.
load_image_from_url(url, reachable) ==
    CASE ~reachable -> None
      [] url = "urlA" -> "imgA"
      [] url = "urlB" -> "imgB"
      [] OTHER -> None

\* load_image_from_bytes: the decoded image, or None for ValueError.
load_image_from_bytes(bytes) ==
    CASE bytes = "bytesA" -> "imgA"
      [] bytes = "bytesB" -> "imgB"
      [] OTHER -> None

\* CLIPEmbedder.get_image_embedding: deterministic, L2-normalised.
get_image_embedding(image) ==
    IF image = "imgA" THEN <<10, 0>> ELSE <<6, 8>>

----------------------------------------------------------------------------
(* Product documents of db.products *)

Categories == {"Electronics", "Fashion"}

\* Product(**fields, embedding=...): a document with a fresh uuid4 id and the
\* current time.  `description` is carried exactly like `price` and is left out.
Product(id, now, name, category, image_url, price, embedding) ==
    [id |-> id, name |-> name, category |-> category, image_url |-> image_url,
     price |-> price, has_embedding |-> TRUE, embedding |-> embedding,
     created_at |-> now]

\* Documents the handlers cannot write themselves but may find in the
\* collection (written by another program, or by an older revision): no
\* `embedding` key, an empty embedding, an embedding of another dimension.
ForeignDocs ==
    { [id |-> 0, name |-> "Legacy", category |-> "Electronics", image_url |-> "urlA",
       price |-> None, has_embedding |-> h, embedding |-> e, created_at |-> 0] :
        <<h, e>> \in { <<FALSE, <<>>>>, <<TRUE, <<>>>>, <<TRUE, <<6, 8, 0>>>> } }

\* Documents a previous run of this service wrote.
OwnDocs ==
    { Product(0, 0, "Test Product", c, u, None,
              get_image_embedding(load_image_from_url(u, TRUE))) :
        c \in Categories, u \in {"urlA", "urlB"} }

RECURSIVE SeqsUpTo(_, _)
SeqsUpTo(S, n) ==
    IF n = 0 THEN { <<>> }
    ELSE LET shorter == SeqsUpTo(S, n - 1)
         IN  shorter \cup { Append(s, x) : s \in { t \in shorter : Len(t) = n - 1 }, x \in S }

\* The ids and creation times of the documents found at start-up.
Renumber(docs) ==
    [i \in 1..Len(docs) |-> [docs[i] EXCEPT !.id = i, !.created_at = i]]

InitialStores == { Renumber(s) : s \in SeqsUpTo(ForeignDocs \cup OwnDocs, MaxInit) }

----------------------------------------------------------------------------
(* The similarity search of search_by_upload and search_by_url *)

Min(a, b) == IF a < b THEN a ELSE b

Max(a, b) == IF a > b THEN a ELSE b

RECURSIVE DotFrom(_, _, _)
DotFrom(emb1, emb2, i) ==
    IF i > Len(emb1) THEN 0 ELSE emb1[i] * emb2[i] + DotFrom(emb1, emb2, i + 1)

\* np.dot on two 1-D arrays raises ValueError when their lengths differ.
DotRaises(emb1, emb2) == Len(emb1) # Len(emb2)

calculate_cosine_similarity(emb1, emb2) == DotFrom(emb1, emb2, 1)

\* product.get('embedding'): falsy for a missing key and for an empty list.
HasEmbedding(product) == product.has_embedding /\ Len(product.embedding) > 0

RECURSIVE FilterCategory(_, _)
FilterCategory(docs, category) ==
    IF docs = <<>> THEN <<>>
    ELSE LET rest == FilterCategory(Tail(docs), category)
         IN  IF Head(docs).category = category THEN <<Head(docs)>> \o rest ELSE rest

\* `not category` holds for None and for the empty string.
FilterQuery(category) == IF category = None \/ category = "" THEN None ELSE category

\* db.products.find(filter_query, {"_id": 0}).to_list(1000)
Find(docs, category) ==
    LET matching == IF FilterQuery(category) = None THEN docs
                    ELSE FilterCategory(docs, category)
    IN  SubSeq(matching, 1, Min(Len(matching), ScanLimit))

\* The scoring loop raises as soon as it meets an embedding whose length
\* differs from the query's.
ScoringRaises(products, query_embedding) ==
    \E i \in 1..Len(products) :
        HasEmbedding(products[i]) /\ DotRaises(query_embedding, products[i].embedding)

Keeps(similarity, min_similarity) == similarity >= min_similarity

SimilarProduct(product, similarity) ==
    [id |-> product.id, name |-> product.name, category |-> product.category,
     image_url |-> product.image_url, price |-> product.price,
     similarity_score |-> similarity]

\* Score with a product without embedding scored 0 instead of skipped.
RECURSIVE ScoreMissingAsZero(_, _, _)
ScoreMissingAsZero(products, query_embedding, min_similarity) ==
    IF products = <<>> THEN <<>>
    ELSE LET product == Head(products)
             rest == ScoreMissingAsZero(Tail(products), query_embedding, min_similarity)
             similarity ==
                 IF HasEmbedding(product)
                 THEN calculate_cosine_similarity(query_embedding, product.embedding)
                 ELSE 0
         IN  IF Keeps(similarity, min_similarity)
             THEN <<SimilarProduct(product, similarity)>> \o rest
             ELSE rest

RECURSIVE Score(_, _, _)
Score(products, query_embedding, min_similarity) ==
    IF products = <<>> THEN <<>>
    ELSE LET product == Head(products)
             rest == Score(Tail(products), query_embedding, min_similarity)
         IN  IF HasEmbedding(product)
             THEN LET similarity ==
                          calculate_cosine_similarity(query_embedding, product.embedding)
                  IN  IF Keeps(similarity, min_similarity)
                      THEN <<SimilarProduct(product, similarity)>> \o rest
                      ELSE rest
             ELSE rest

\* InsertDescending with an entry placed before the entries of equal score.
RECURSIVE InsertBeforeEqual(_, _)
InsertBeforeEqual(sorted, x) ==
    IF sorted = <<>> THEN <<x>>
    ELSE IF Head(sorted).similarity_score > x.similarity_score
         THEN <<Head(sorted)>> \o InsertBeforeEqual(Tail(sorted), x)
         ELSE <<x>> \o sorted

\* The place of x in a list sorted by descending score: after every entry
\* whose score is greater than or equal to x's, as the stable sort leaves it.
RECURSIVE InsertDescending(_, _)
InsertDescending(sorted, x) ==
    IF sorted = <<>> THEN <<x>>
    ELSE IF Head(sorted).similarity_score >= x.similarity_score
         THEN <<Head(sorted)>> \o InsertDescending(Tail(sorted), x)
         ELSE <<x>> \o sorted

\* results.sort(key=lambda x: x['similarity_score'], reverse=True): stable.
RECURSIVE SortFrom(_, _, _)
SortFrom(results, i, sorted) ==
    IF i > Len(results) THEN sorted
    ELSE SortFrom(results, i + 1, InsertDescending(sorted, results[i]))

\* SortDescending with the sort left out.
SortSkipped(results) == results

SortDescending(results) == SortFrom(results, 1, <<>>)

\* results[:limit]; a negative limit counts from the end of the list.
Slice(results, limit) ==
    IF limit >= 0 THEN SubSeq(results, 1, Min(limit, Len(results)))
    ELSE SubSeq(results, 1, Max(Len(results) + limit, 0))

\* The body of search_by_upload once the query image is decoded.
Ranked(docs, image, limit, min_similarity, category) ==
    LET query_embedding == get_image_embedding(image)
        products == Find(docs, category)
        results == Score(products, query_embedding, min_similarity)
    IN  Slice(SortDescending(results), limit)

\* UrlScore with a strict threshold.
RECURSIVE UrlScoreStrict(_, _, _)
UrlScoreStrict(products, query_embedding, min_similarity) ==
    IF products = <<>> THEN <<>>
    ELSE LET product == Head(products)
             rest == UrlScoreStrict(Tail(products), query_embedding, min_similarity)
         IN  IF product.has_embedding /\ product.embedding # <<>>
             THEN LET similarity ==
                          calculate_cosine_similarity(query_embedding, product.embedding)
                  IN  IF similarity > min_similarity
                      THEN <<SimilarProduct(product, similarity)>> \o rest
                      ELSE rest
             ELSE rest

\* The scoring loop of search_by_url, the handler's own copy of the loop.
RECURSIVE UrlScore(_, _, _)
UrlScore(products, query_embedding, min_similarity) ==
    IF products = <<>> THEN <<>>
    ELSE LET product == Head(products)
             rest == UrlScore(Tail(products), query_embedding, min_similarity)
         IN  IF product.has_embedding /\ product.embedding # <<>>
             THEN LET similarity ==
                          calculate_cosine_similarity(query_embedding, product.embedding)
                  IN  IF similarity >= min_similarity
                      THEN <<SimilarProduct(product, similarity)>> \o rest
                      ELSE rest
             ELSE rest

\* The body of search_by_url once the query image is decoded.
UrlRanked(docs, image, limit, min_similarity, category) ==
    LET query_embedding == get_image_embedding(image)
        filter_query == IF category = None \/ category = "" THEN None ELSE category
        matching == IF filter_query = None THEN docs ELSE FilterCategory(docs, filter_query)
        products == SubSeq(matching, 1, Min(Len(matching), ScanLimit))
        results == UrlScore(products, query_embedding, min_similarity)
    IN  Slice(SortDescending(results), limit)

----------------------------------------------------------------------------
(* Responses.  `resp` is the response on its way to the client: the handler
   that ran in the last step returned it, and Deliver hands it over.  The
   response of a search that got its query image carries the arguments of the
   request. *)

NoResponse ==
    [op |-> "none", status |-> 0, detail |-> "", body |-> <<>>, categories |-> {},
     image |-> None, limit |-> 0, min_similarity |-> 0, category |-> None,
     loads |-> 0, encodes |-> 0, inserted |-> 0, failed |-> 0, count |-> 0,
     attempted |-> <<>>, alone |-> TRUE]

\* raise HTTPException(status_code=503, detail="CLIP model not available")
Unavailable(op) ==
    [NoResponse EXCEPT !.op = op, !.status = 503, !.detail = "CLIP model not available"]

\* What search_by_upload answers once the embedder is known to be there:
\* the except of the handler turns a failed image load and the ValueError of
\* the scoring loop into a 500.  The embedder call and the database read are
\* taken to return.
SearchResponse(op, docs, image, limit, min_similarity, category) ==
    IF image = None
    THEN [NoResponse EXCEPT !.op = op, !.status = 500, !.loads = 1,
              !.detail = "Failed to load image"]
    ELSE LET ran == [NoResponse EXCEPT !.op = op, !.loads = 1, !.encodes = 1,
                        !.image = image, !.limit = limit,
                        !.min_similarity = min_similarity, !.category = category]
         IN  IF ScoringRaises(Find(docs, category), get_image_embedding(image))
             THEN [ran EXCEPT !.status = 500, !.detail = "shapes not aligned"]
             ELSE [ran EXCEPT !.status = 200,
                              !.body = Ranked(docs, image, limit, min_similarity, category)]

\* What search_by_url answers once the embedder is known to be there.
UrlSearchResponse(docs, image, limit, min_similarity, category) ==
    IF image = None
    THEN [NoResponse EXCEPT !.op = "search_by_url", !.status = 500, !.loads = 1,
              !.detail = "Failed to load image"]
    ELSE LET ran == [NoResponse EXCEPT !.op = "search_by_url", !.loads = 1,
                        !.encodes = 1, !.image = image, !.limit = limit,
                        !.min_similarity = min_similarity, !.category = category]
             products == Find(docs, category)
             query_embedding == get_image_embedding(image)
         IN  IF \E i \in 1..Len(products) :
                    /\ products[i].has_embedding
                    /\ products[i].embedding # <<>>
                    /\ DotRaises(query_embedding, products[i].embedding)
             THEN [ran EXCEPT !.status = 500, !.detail = "shapes not aligned"]
             ELSE [ran EXCEPT !.status = 200,
                              !.body = UrlRanked(docs, image, limit, min_similarity,
                                                 category)]

----------------------------------------------------------------------------
(* Inputs *)

\* explicit values of `limit`: negative, zero, up to the size of a full store
Limits == -1..MaxStore

\* below -1.0, -1.0, the similarity of imgA and imgB, 1.0, above 1.0
Thresholds == {-(Unit + 1), -Unit, 60, Unit, Unit + 1}

CategoryFilters == {None, ""} \cup Categories

\* the fixed list of seed_products: one entry of each of two categories
sample_products ==
    << [name |-> "MacBook Pro 16", category |-> "Electronics", price |-> 2499,
        image_url |-> "urlA"],
       [name |-> "Nike Air Max", category |-> "Fashion", price |-> 150,
        image_url |-> "urlB"] >>

SeedReqs == 1..NumSeedReqs

\* A seed_products request: its place in the handler, the loop index and the
\* counters `inserted` and `failed`.  `attempted` (the entries tried so far)
\* and `alone` (no other request wrote to the store since this one counted
\* it) are history kept for the properties; the handler does not read them.
IdleSeed ==
    [pc |-> "idle", idx |-> 0, inserted |-> 0, failed |-> 0, attempted |-> <<>>,
     alone |-> TRUE]

----------------------------------------------------------------------------
(* State *)

Init ==
    /\ embedder \in BOOLEAN
    /\ store \in InitialStores
    /\ nextId = Len(store) + 1
    /\ seed = [r \in SeedReqs |-> IdleSeed]
    /\ resp = NoResponse

\* await db.products.insert_one(doc), as the seed requests in flight see it:
\* a document written by another request.
Disturb(writer) ==
    [r \in SeedReqs |->
        IF r # writer /\ seed[r].pc = "loop" THEN [seed[r] EXCEPT !.alone = FALSE]
        ELSE seed[r]]

\* create_product with the document in the store before the failure of the
\* write is reported.
CreateProductHalfWritten(name, category, image_url, price, reachable, encoded, written) ==
    IF ~embedder
    THEN /\ resp' = Unavailable("create_product")
         /\ UNCHANGED <<embedder, store, nextId, seed>>
    ELSE LET image == load_image_from_url(image_url, reachable)
             op == [NoResponse EXCEPT !.op = "create_product", !.loads = 1]
         IN  IF image = None \/ ~encoded
             THEN /\ resp' = [op EXCEPT !.status = 500, !.detail = "Failed to load image"]
                  /\ UNCHANGED <<embedder, store, nextId, seed>>
             ELSE LET product_obj == Product(nextId, nextId, name, category, image_url,
                                             price, get_image_embedding(image))
                  IN  /\ Len(store) < MaxStore
                      /\ store' = Append(store, product_obj)
                      /\ nextId' = nextId + 1
                      /\ seed' = Disturb(0)
                      /\ resp' = IF written
                                 THEN [op EXCEPT !.status = 200, !.encodes = 1,
                                                 !.image = image, !.body = <<product_obj>>]
                                 ELSE [op EXCEPT !.status = 500, !.encodes = 1,
                                                 !.image = image,
                                                 !.detail = "insert failed"]
                      /\ UNCHANGED embedder

\* `encoded` and `written` tell whether embedder.get_image_embedding and
\* insert_one return or raise; the handler's except turns either into a 500.
create_product(name, category, image_url, price, reachable, encoded, written) ==
    IF ~embedder
    THEN /\ resp' = Unavailable("create_product")
         /\ UNCHANGED <<embedder, store, nextId, seed>>
    ELSE LET image == load_image_from_url(image_url, reachable)
             op == [NoResponse EXCEPT !.op = "create_product", !.loads = 1]
         IN  IF image = None
             THEN /\ resp' = [op EXCEPT !.status = 500, !.detail = "Failed to load image"]
                  /\ UNCHANGED <<embedder, store, nextId, seed>>
             ELSE IF ~encoded
             THEN /\ resp' = [op EXCEPT !.status = 500, !.encodes = 1,
                                        !.detail = "embedding failed"]
                  /\ UNCHANGED <<embedder, store, nextId, seed>>
             ELSE LET product_obj == Product(nextId, nextId, name, category, image_url,
                                             price, get_image_embedding(image))
                  IN  IF written
                      THEN /\ Len(store) < MaxStore
                           /\ store' = Append(store, product_obj)
                           /\ nextId' = nextId + 1
                           /\ seed' = Disturb(0)
                           /\ resp' = [op EXCEPT !.status = 200, !.encodes = 1,
                                                 !.image = image,
                                                 !.body = <<product_obj>>]
                           /\ UNCHANGED embedder
                      ELSE /\ resp' = [op EXCEPT !.status = 500, !.encodes = 1,
                                                 !.image = image,
                                                 !.detail = "insert failed"]
                           /\ UNCHANGED <<embedder, store, nextId, seed>>

CreateProduct ==
    \E category \in Categories, image_url \in Urls, reachable \in BOOLEAN,
       encoded \in BOOLEAN, written \in BOOLEAN :
        create_product("Test Product", category, image_url, None, reachable, encoded,
                       written)

get_products ==
    /\ resp' = [NoResponse EXCEPT !.op = "get_products", !.status = 200,
                    !.body = SubSeq(store, 1, Min(Len(store), ScanLimit))]
    /\ UNCHANGED <<embedder, store, nextId, seed>>

get_categories ==
    /\ resp' = [NoResponse EXCEPT !.op = "get_categories", !.status = 200,
                    !.categories = { store[i].category : i \in 1..Len(store) }]
    /\ UNCHANGED <<embedder, store, nextId, seed>>

\* search_by_upload without the check of the embedder.
SearchByUploadUnchecked(file, limit, min_similarity, category) ==
    /\ resp' = SearchResponse("search_by_upload", store, load_image_from_bytes(file),
                   limit, min_similarity, category)
    /\ UNCHANGED <<embedder, store, nextId, seed>>

search_by_upload(file, limit, min_similarity, category) ==
    /\ resp' = IF ~embedder THEN Unavailable("search_by_upload")
               ELSE SearchResponse("search_by_upload", store,
                        load_image_from_bytes(file), limit, min_similarity, category)
    /\ UNCHANGED <<embedder, store, nextId, seed>>

SearchByUpload ==
    \E file \in Files, limit \in Limits, min_similarity \in Thresholds,
       category \in CategoryFilters :
        search_by_upload(file, limit, min_similarity, category)

search_by_url(url, reachable, limit, min_similarity, category) ==
    /\ resp' = IF ~embedder THEN Unavailable("search_by_url")
               ELSE UrlSearchResponse(store, load_image_from_url(url, reachable),
                        limit, min_similarity, category)
    /\ UNCHANGED <<embedder, store, nextId, seed>>

SearchByUrl ==
    \E url \in Urls, reachable \in BOOLEAN, limit \in Limits,
       min_similarity \in Thresholds, category \in CategoryFilters :
        search_by_url(url, reachable, limit, min_similarity, category)

\* The searches of a client that sends only the image: the Form defaults.
SearchByUploadDefaults ==
    \E file \in Files :
        search_by_upload(file, DefaultLimit, DefaultMinSimilarity, None)

SearchByUrlDefaults ==
    \E url \in Urls, reachable \in BOOLEAN :
        search_by_url(url, reachable, UrlDefaultLimit, UrlDefaultMinSimilarity, None)

\* SeedBegin without the guard on the count.
SeedBeginUnguarded(r) ==
    /\ seed[r].pc = "idle"
    /\ IF ~embedder
       THEN /\ resp' = Unavailable("seed_products")
            /\ UNCHANGED seed
       ELSE /\ resp' = NoResponse
            /\ seed' = [seed EXCEPT ![r] = [IdleSeed EXCEPT !.pc = "loop", !.idx = 1]]
    /\ UNCHANGED <<embedder, store, nextId>>

\* seed_products up to the count: the embedder check and the guard against
\* seeding twice.
SeedBegin(r) ==
    /\ seed[r].pc = "idle"
    /\ IF ~embedder
       THEN /\ resp' = Unavailable("seed_products")
            /\ UNCHANGED seed
       ELSE LET count == Len(store)
            IN  IF count > 0
                THEN /\ resp' = [NoResponse EXCEPT !.op = "seed_products", !.status = 200,
                                     !.detail = "Database already contains products",
                                     !.count = count]
                     /\ UNCHANGED seed
                ELSE /\ resp' = NoResponse
                     /\ seed' = [seed EXCEPT ![r] = [IdleSeed EXCEPT !.pc = "loop", !.idx = 1]]
    /\ UNCHANGED <<embedder, store, nextId>>

\* What the request returns once the loop is over.
SeedResponse(s) ==
    [NoResponse EXCEPT !.op = "seed_products", !.status = 200,
         !.detail = "Seeded products successfully", !.inserted = s.inserted,
         !.failed = s.failed, !.attempted = s.attempted, !.alone = s.alone,
         !.loads = Len(s.attempted)]

\* SeedAdvance with the loop left at the first failure.
SeedAdvanceBreak(s, ok) ==
    [s EXCEPT !.idx = IF ok THEN s.idx + 1 ELSE Len(sample_products) + 1,
              !.attempted = Append(s.attempted, s.idx),
              !.inserted = IF ok THEN s.inserted + 1 ELSE s.inserted,
              !.failed = IF ok THEN s.failed ELSE s.failed + 1]

\* The state of the request after one turn of the loop.
SeedAdvance(s, ok) ==
    [s EXCEPT !.idx = s.idx + 1,
              !.attempted = Append(s.attempted, s.idx),
              !.inserted = IF ok THEN s.inserted + 1 ELSE s.inserted,
              !.failed = IF ok THEN s.failed ELSE s.failed + 1]

\* SeedItem with the collection emptied before the first sample is written.
SeedItemClearing(r, reachable, encoded, written) ==
    /\ seed[r].pc = "loop"
    /\ seed[r].idx <= Len(sample_products)
    /\ LET product_data == sample_products[seed[r].idx]
           image == load_image_from_url(product_data.image_url, reachable)
           ok == image # None /\ encoded /\ written
           after == SeedAdvance(seed[r], ok)
           others == Disturb(r)
           kept == IF seed[r].idx = 1 THEN <<>> ELSE store
       IN  /\ IF ok
              THEN /\ Len(kept) < MaxStore
                   /\ store' = Append(kept,
                          Product(nextId, nextId, product_data.name, product_data.category,
                                  product_data.image_url, product_data.price,
                                  get_image_embedding(image)))
                   /\ nextId' = nextId + 1
              ELSE UNCHANGED <<store, nextId>>
           /\ IF after.idx > Len(sample_products)
              THEN /\ resp' = SeedResponse(after)
                   /\ seed' = [(IF ok THEN others ELSE seed) EXCEPT ![r] = IdleSeed]
              ELSE /\ resp' = NoResponse
                   /\ seed' = [(IF ok THEN others ELSE seed) EXCEPT ![r] = after]
    /\ UNCHANGED embedder

\* One turn of the loop of seed_products, and the return after the last one.
SeedItem(r, reachable, encoded, written) ==
    /\ seed[r].pc = "loop"
    /\ seed[r].idx <= Len(sample_products)
    /\ LET product_data == sample_products[seed[r].idx]
           image == load_image_from_url(product_data.image_url, reachable)
           ok == image # None /\ encoded /\ written
           after == SeedAdvance(seed[r], ok)
           others == Disturb(r)
       IN  /\ IF ok
              THEN /\ Len(store) < MaxStore
                   /\ store' = Append(store,
                          Product(nextId, nextId, product_data.name, product_data.category,
                                  product_data.image_url, product_data.price,
                                  get_image_embedding(image)))
                   /\ nextId' = nextId + 1
              ELSE UNCHANGED <<store, nextId>>
           /\ IF after.idx > Len(sample_products)
              THEN /\ resp' = SeedResponse(after)
                   /\ seed' = [(IF ok THEN others ELSE seed) EXCEPT ![r] = IdleSeed]
              ELSE /\ resp' = NoResponse
                   /\ seed' = [(IF ok THEN others ELSE seed) EXCEPT ![r] = after]
    /\ UNCHANGED embedder

SeedProducts ==
    \E r \in SeedReqs :
        \/ SeedBegin(r)
        \/ \E reachable \in BOOLEAN, encoded \in BOOLEAN, written \in BOOLEAN :
               SeedItem(r, reachable, encoded, written)

\* The client receives the response.
Deliver ==
    /\ resp # NoResponse
    /\ resp' = NoResponse
    /\ UNCHANGED <<embedder, store, nextId, seed>>

\* The service: every handler, seed requests in flight together, searches
\* sent with the default parameters.
Request ==
    \/ CreateProduct
    \/ get_products
    \/ get_categories
    \/ SearchByUploadDefaults
    \/ SearchByUrlDefaults
    \/ SeedProducts

Next ==
    \/ resp = NoResponse /\ Request
    \/ Deliver

\* The search: every combination of limit, min_similarity and category, and
\* the request with the defaults, over the stores found at start-up and
\* grown by create_product.
SearchRequest ==
    \/ CreateProduct
    \/ SearchByUpload
    \/ SearchByUrl
    \/ SearchByUploadDefaults
    \/ SearchByUrlDefaults

NextSearch ==
    \/ resp = NoResponse /\ SearchRequest
    \/ Deliver

Spec == Init /\ [][Next]_vars

SpecSearch == Init /\ [][NextSearch]_vars

----------------------------------------------------------------------------
(* Properties *)

Searches == {"search_by_upload", "search_by_url"}

\* A search handler returned a result list.
Returned == resp.op \in Searches /\ resp.status = 200

\* A search handler ran with a decoded query image.
Searched == resp.op \in Searches /\ resp.image # None

StoreIndex == 1..Len(store)

\* The place in the store of the document with this id.
Place(id) == CHOOSE i \in StoreIndex : store[i].id = id

Similarity(doc) == calculate_cosine_similarity(get_image_embedding(resp.image), doc.embedding)

\* C1: the list a search returns for a limit >= 0 is ordered by
\* similarity_score non-increasing, and every score in it is at least
\* min_similarity.
C1_SortedAboveThreshold ==
    (Returned /\ resp.limit >= 0) =>
        /\ \A i \in 1..Len(resp.body) - 1 :
               resp.body[i].similarity_score >= resp.body[i + 1].similarity_score
        /\ \A i \in 1..Len(resp.body) :
               resp.body[i].similarity_score >= resp.min_similarity

\* A search returned two entries of different scores under a threshold that
\* is a score some stored document reaches.
C1_Witness ==
    /\ Returned
    /\ resp.limit >= 2
    /\ resp.min_similarity = 60
    /\ Len(resp.body) = 2
    /\ resp.body[1].similarity_score > resp.body[2].similarity_score

\* C2 (as claimed): a search without category filter, with min_similarity
\* -1.0 and limit equal to the number of stored documents returns every
\* stored document that has an embedding exactly once.
C2_Claim_ReturnsAllOnce ==
    (Returned /\ resp.category = None /\ resp.min_similarity = -Unit
              /\ resp.limit = Len(store)) =>
        \A i \in StoreIndex :
            HasEmbedding(store[i]) =>
                Cardinality({ j \in 1..Len(resp.body) : resp.body[j].id = store[i].id }) = 1

\* The number of candidates of the search that have an embedding and a score
\* of at least min_similarity; an embedding of another dimension has no score.
Survivors(category, min_similarity) ==
    LET products == Find(store, category)
    IN  Cardinality({ i \in 1..Len(products) :
            /\ HasEmbedding(products[i])
            /\ ~DotRaises(get_image_embedding(resp.image), products[i].embedding)
            /\ Similarity(products[i]) >= min_similarity })

\* C3 (as claimed): a search with a valid image succeeds, and for a limit
\* k >= 0 it returns min(k, n) entries, n being the number of candidates with
\* an embedding and a score of at least min_similarity.
C3_Claim_ReturnsMinOfLimitAndSurvivors ==
    Searched =>
        /\ resp.status = 200
        /\ resp.limit >= 0 =>
               Len(resp.body) = Min(resp.limit, Survivors(resp.category, resp.min_similarity))

\* C4: a stored document whose embedding is missing or empty is in no
\* returned list, whatever the query, threshold, limit and category.
C4_NoEmbeddingNeverReturned ==
    Returned =>
        \A j \in 1..Len(resp.body) : \A i \in StoreIndex :
            store[i].id = resp.body[j].id => HasEmbedding(store[i])

\* A search scanned a document without embedding and returned another one.
C4_Witness ==
    /\ Returned
    /\ resp.body # <<>>
    /\ \E i \in 1..Len(Find(store, resp.category)) :
           ~HasEmbedding(Find(store, resp.category)[i])

\* C5: a seed_products call that finds a document in the store writes
\* nothing and does not enter its loop, and a call that has inserted a
\* document leaves the store non-empty for the call after it.
C5_SeedIdempotent ==
    /\ [][\A r \in SeedReqs :
             (SeedBegin(r) /\ Len(store) > 0) =>
                 (store' = store /\ seed' = seed /\ resp'.op = "seed_products"
                                 /\ resp'.inserted = 0
                                 /\ (embedder => resp'.count = Len(store)))]_vars
    /\ []((resp.op = "seed_products" /\ resp.inserted > 0) => Len(store) > 0)

\* A seed call has just answered that the store already holds documents,
\* some of them seeded.
C5_Witness ==
    /\ resp.op = "seed_products"
    /\ resp.count > 0
    /\ \E i \in StoreIndex : store[i].name = sample_products[1].name

\* C6 (as claimed): a search with a valid image over candidates of which one
\* has an embedding of another dimension still succeeds, and its list is the
\* ranking of the other candidates.
C6_Claim_MalformedSkipped ==
    (Searched /\ \E i \in StoreIndex :
                    HasEmbedding(store[i])
                    /\ DotRaises(get_image_embedding(resp.image), store[i].embedding)) =>
        /\ resp.status = 200
        /\ resp.limit >= 0 =>
               Len(resp.body) = Min(resp.limit, Survivors(resp.category, resp.min_similarity))

\* C7: a seed_products call that found the store empty returns after trying
\* every entry of the list once and in order, with inserted + failed equal to
\* the length of the list, and, no other request having written meanwhile,
\* with exactly `inserted` documents in the store.
C7_SeedCountsEveryItem ==
    (resp.op = "seed_products" /\ resp.status = 200 /\ resp.count = 0) =>
        /\ resp.attempted = [i \in 1..Len(sample_products) |-> i]
        /\ resp.inserted + resp.failed = Len(sample_products)
        /\ resp.alone => Len(store) = resp.inserted

\* A seed call returned after a failure on the first entry and an insert of
\* a later one.
C7_Witness ==
    /\ resp.op = "seed_products"
    /\ resp.count = 0
    /\ resp.alone
    /\ resp.failed >= 1
    /\ resp.inserted >= 1
    /\ store # <<>>
    /\ store[1].name = sample_products[2].name

NeedsEmbedder == {"create_product", "seed_products"} \cup Searches

\* C8: while the embedder is missing, every create_product, search and
\* seed_products call answers 503 without loading or encoding an image, the
\* store stays as it is, and the embedder stays missing.
C8_EncoderUnavailable ==
    /\ []((~embedder /\ resp.op \in NeedsEmbedder) =>
             (resp.status = 503 /\ resp.loads = 0 /\ resp.encodes = 0))
    /\ [][~embedder => (store' = store /\ ~embedder' /\ seed' = seed)]_vars

\* Without embedder, a search has just been refused.
C8_Witness ==
    /\ ~embedder
    /\ store # <<>>
    /\ resp.op = "search_by_upload"
    /\ resp.status = 503

\* C9: two entries of a returned list that have the same score stand in the
\* order in which the store scan delivered their documents.
C9_StableRanking ==
    Returned =>
        \A i \in 1..Len(resp.body) : \A j \in 1..Len(resp.body) :
            (i < j /\ resp.body[i].similarity_score = resp.body[j].similarity_score) =>
                Place(resp.body[i].id) < Place(resp.body[j].id)

\* A search returned two entries of the same score.
C9_Witness ==
    /\ Returned
    /\ Len(resp.body) >= 2
    /\ resp.body[1].similarity_score = resp.body[2].similarity_score

\* C10 (as claimed): a search with a valid image succeeds; with a limit that
\* does not cut the list it returns exactly the candidates with an embedding
\* whose score is at least min_similarity, so all of them below -1.0 and none
\* above 1.0.
C10_Claim_InclusiveUnclamped ==
    Searched =>
        /\ resp.status = 200
        /\ LET products == Find(store, resp.category)
               kept == { resp.body[j].id : j \in 1..Len(resp.body) }
           IN  resp.limit >= Len(products) =>
                   /\ \A i \in 1..Len(products) :
                          HasEmbedding(products[i]) =>
                              (products[i].id \in kept
                                   <=> Similarity(products[i]) >= resp.min_similarity)
                   /\ resp.min_similarity < -Unit =>
                          \A i \in 1..Len(products) :
                              HasEmbedding(products[i]) => products[i].id \in kept
                   /\ resp.min_similarity > Unit => resp.body = <<>>

\* A category filter reaches the query only as a non-empty string: the form
\* parser hands an empty field over as missing, and `not category` treats
\* both alike.
FilterGiven == resp.category # None /\ resp.category # ""

\* C11 (as claimed): every entry a search with category filter c returns has
\* category c, and a search without filter has every stored document as a
\* candidate: each one with an embedding and a score of at least
\* min_similarity is in the list when the limit does not cut it.
C11_Claim_CategoryFilter ==
    Returned =>
        /\ FilterGiven =>
               \A j \in 1..Len(resp.body) : resp.body[j].category = resp.category
        /\ (~FilterGiven /\ resp.limit >= Len(store)) =>
               \A i \in StoreIndex :
                   (HasEmbedding(store[i]) /\ Similarity(store[i]) >= resp.min_similarity) =>
                       \E j \in 1..Len(resp.body) : resp.body[j].id = store[i].id

\* The request left limit and min_similarity out: the explicit form values
\* come from Limits, any other limit was filled in from the signature.
Defaulted == resp.limit \notin Limits

\* C12: for the same decoded image, store, limit, min_similarity and category
\* search_by_url answers what search_by_upload answers and the other way
\* round (same status, same entries, same scores, same order), and a request
\* that leaves the parameters out runs with limit 10 and min_similarity 0.3
\* in both.
C12_UploadUrlEquivalent ==
    /\ (Searched /\ resp.op = "search_by_url") =>
           resp = [SearchResponse("search_by_upload", store, resp.image, resp.limit,
                       resp.min_similarity, resp.category)
                     EXCEPT !.op = "search_by_url"]
    /\ (Searched /\ resp.op = "search_by_upload") =>
           resp = [UrlSearchResponse(store, resp.image, resp.limit,
                       resp.min_similarity, resp.category)
                     EXCEPT !.op = "search_by_upload"]
    /\ (Searched /\ Defaulted) => (resp.limit = 10 /\ resp.min_similarity = 30)

\* search_by_url returned, for a threshold that one stored document just
\* reaches, a list of two entries of one category.
C12_Witness ==
    /\ Returned
    /\ resp.op = "search_by_url"
    /\ resp.category = "Electronics"
    /\ resp.min_similarity = 60
    /\ Len(resp.body) = 2
    /\ resp.body[2].similarity_score = 60

\* C13: a create_product call that fails (no embedder, image not loaded,
\* embedding not computed, document not written) reports an error after at
\* most one load and one encoding and leaves the store as it was; a call
\* that succeeds appends exactly one document, with an id no stored document
\* has and a non-empty embedding, and returns that document.
C13_CreateAllOrNothing ==
    [][ (resp = NoResponse /\ resp'.op = "create_product") =>
            /\ resp'.loads <= 1 /\ resp'.encodes <= 1
            /\ IF resp'.status = 200
               THEN /\ Len(resp'.body) = 1
                    /\ store' = Append(store, resp'.body[1])
                    /\ \A i \in 1..Len(store) : store[i].id # resp'.body[1].id
                    /\ resp'.body[1].has_embedding
                    /\ resp'.body[1].embedding # <<>>
               ELSE /\ resp'.status \in {500, 503}
                    /\ resp'.detail # NoResponse.detail
                    /\ resp'.body = <<>>
                    /\ store' = store ]_vars

\* create_product answered 200 on a store that already held documents, one of
\* them made from the same image.
C13_Witness ==
    /\ resp.op = "create_product"
    /\ resp.status = 200
    /\ Len(store) >= 2
    /\ store[Len(store)] = resp.body[1]
    /\ \E i \in 1..(Len(store) - 1) : store[i].image_url = resp.body[1].image_url

\* The store holds a document made from the image of the search: its
\* embedding is what the encoder gives for that image.
HoldsQueryImage ==
    \E i \in StoreIndex :
        /\ store[i].has_embedding
        /\ store[i].embedding = get_image_embedding(resp.image)

\* C14 (as claimed): once the store holds a document made from image X, a
\* search with X, without category filter, with limit >= 1 and
\* min_similarity <= 1 answers 200 with a non-empty list whose first entry
\* has the self-similarity of X, the largest score of the list.
C14_Claim_SelfSearchFirst ==
    (/\ resp.op \in Searches
     /\ resp.image # None
     /\ ~FilterGiven
     /\ resp.limit >= 1
     /\ resp.min_similarity <= Unit
     /\ HoldsQueryImage) =>
        /\ resp.status = 200
        /\ resp.body # <<>>
        /\ resp.body[1].similarity_score = Unit
        /\ \A j \in 1..Len(resp.body) :
               resp.body[j].similarity_score <= resp.body[1].similarity_score

\* The handlers that only read.
Readers == {"get_products", "get_categories"} \cup Searches

\* C15: every step leaves the documents already stored where and as they
\* were (same id, fields, embedding and created_at) and only adds after
\* them, so the count never decreases; a step in which get_products,
\* get_categories or a search answers leaves the store as it was; and no two
\* stored documents share an id.
C15_AppendOnly ==
    /\ [][ /\ Len(store') >= Len(store)
           /\ SubSeq(store', 1, Len(store)) = store
           /\ resp'.op \in Readers => store' = store ]_vars
    /\ [](\A i, j \in StoreIndex : store[i].id = store[j].id => i = j)

\* A search answers on a store of three documents, written by create_product
\* and by seed_products.
C15_Witness ==
    /\ resp.op \in Searches
    /\ Len(store) = 3
    /\ \E i \in StoreIndex : store[i].name = "Test Product"
    /\ \E i \in StoreIndex : store[i].name = sample_products[1].name

\* The stored documents made from entry k of the sample list.
SeededFrom(k) == { i \in StoreIndex : store[i].name = sample_products[k].name }

\* C16 (as claimed): with seed_products requests in flight together on a store
\* that was empty when they counted it, no entry of the sample list is stored
\* more than once and at most one of the requests inserts: no two requests
\* in their loops have both inserted, and a request that answers with
\* inserted > 0 leaves no other request that has inserted.
C16_Claim_SeedGuardUnderInterleaving ==
    /\ \A k \in 1..Len(sample_products) : Cardinality(SeededFrom(k)) <= 1
    /\ \A r1, r2 \in SeedReqs :
           (seed[r1].inserted > 0 /\ seed[r2].inserted > 0) => r1 = r2
    /\ (resp.op = "seed_products" /\ resp.inserted > 0) =>
           \A r \in SeedReqs : seed[r].inserted = 0

====
